---- MODULE Spec2Model ----
(***************************************************************************)
(* State-machine model of the calendar component                           *)
(* (force-app/main/default/lwc/calendar/calendar.js, lines 1-514).         *)
(*                                                                         *)
(* Time is counted in ticks of 20 minutes: an instant is an integer number *)
(* of ticks since the epoch, so an hour is 3 ticks and a day 72 ticks.     *)
(* An ISO string and the Date it denotes are the same integer; the empty   *)
(* string (an Invalid Date, a NaN) is the value Empty.                     *)
(***************************************************************************)
EXTENDS Integers, Sequences, FiniteSets, TLC

\* ---------------------------------------------------------------- bounds
MaxLoads == 2        \* resource loads issued in one session
MaxMut == 2          \* create/update/delete requests sent in one session
MaxGestures == 3     \* user gestures (clicks, edits, submits) in one session

\* ------------------------------------------------------- program constants
MILLISECONDS_PER_HOUR == 3        \* ticks in one hour
MILLISECONDS_PER_YEAR == 72       \* ticks in one day (the source's name)
Empty == -999                     \* "" / undefined text, Invalid Date, NaN
NoId == 0                         \* an id that is undefined or null
WEEKDAYS == <<"Mon", "Tue", "Wed", "Thu", "Fri", "Sat", "Sun">>

\* zone offsets (getTimezoneOffset() * 60000) a session may start with
Offsets == {-3, 3}
\* instants the user can enter or select (one on day 2, one on day 3)
FormTimes == {171, 226}
\* local instants a draft's start and end may hold: before, at and after the
\* epoch, at both ends of a day, and the ones the form offers
Instants == FormTimes \cup {-73, -1, 0, 71, 72}

\* ------------------------------------------------------------ value shapes
\* hours is a number (t = "num") or the string toFixed(2) made (t = "str");
\* v is the value in hundredths of an hour, Empty for NaN.
Num(v) == [t |-> "num", v |-> v]
Str(v) == [t |-> "str", v |-> v]

\* DEFAULT_FORM as written in the source (it has no id)
DefaultForm0 ==
    [id |-> NoId, title |-> Empty, start |-> Empty, end |-> Empty,
     weekday |-> "", hours |-> Num(0)]

\* a cached / rendered / stored event
Ev(id, title, start, end, hours) ==
    [id |-> id, title |-> title, start |-> start, end |-> end, hours |-> hours]

NoEv == Ev(NoId, Empty, Empty, Empty, Num(0))

\* ------------------------------------------------------------ pure helpers
IsValid(t) == t # Empty

\* Number.prototype.toFixed(2) of (end - start) / MILLISECONDS_PER_HOUR,
\* in hundredths, rounded half away from zero
Hundredths(d) ==
    LET n == 200 * d            \* 2 * 100 * d
        q == 2 * MILLISECONDS_PER_HOUR
    IN  IF d >= 0 THEN (n + MILLISECONDS_PER_HOUR) \div q
                  ELSE -((-n + MILLISECONDS_PER_HOUR) \div q)

HoursOf(start, end) ==
    IF IsValid(start) /\ IsValid(end) THEN Str(Hundredths(end - start))
                                      ELSE Str(Empty)

\* new Date(x).toISOString().split('T')[0]: the UTC calendar day of an instant
IsoDate(t) == t \div MILLISECONDS_PER_YEAR

\* Date.prototype.getDay() of the UTC midnight of day d, read in the local
\* zone (local = UTC - offset); 0 is Sunday.  Day 0 of the model is a Sunday.
GetDay(d, off) == ((d * MILLISECONDS_PER_YEAR - off) \div MILLISECONDS_PER_YEAR) % 7

getWeekdayName(d, off) == WEEKDAYS[GetDay(d, off) + 1]

\* calculateWorkingHours that leaves the hours as they are
calculateWorkingHours_stale(d) == d

calculateWorkingHours(d) == [d EXCEPT !.hours = HoursOf(d.start, d.end)]

\* requires a valid start (toISOString throws on an Invalid Date)
createTitleBasedOnStartDate(d, off) ==
    [d EXCEPT !.title = IsoDate(d.start),
              !.weekday = getWeekdayName(IsoDate(d.start), off)]

Shift(t, by) == IF IsValid(t) THEN t + by ELSE Empty

convertUtcTime(d, off) == [start |-> Shift(d.start, off), end |-> Shift(d.end, off)]

\* convertLocalTime with the sign of convertUtcTime
convertLocalTime_adds(e, off) == [start |-> Shift(e.start, off), end |-> Shift(e.end, off)]

convertLocalTime(e, off) == [start |-> Shift(e.start, -off), end |-> Shift(e.end, -off)]

\* Array.prototype.find by id: the index of the first match, 0 when none
RECURSIVE FindFrom(_, _, _)
FindFrom(s, id, k) ==
    IF k > Len(s) THEN 0
    ELSE IF s[k].id = id THEN k
    ELSE FindFrom(s, id, k + 1)

FindIndex(s, id) == FindFrom(s, id, 1)

SelectSeqNotId(s, id) == SelectSeq(s, LAMBDA e : e.id # id)


\* ------------------------------------------------------------------ state
VARIABLES
    TIMEZONE_OFFSET,            \* the zone offset captured when the module loads
    DEFAULT_FORM,               \* the module-level form object (mutable)
    selectedEvent,              \* this.selectedEvent (the draft)
    selIsDefault,               \* this.selectedEvent is the DEFAULT_FORM object itself
    events,                     \* this.events (the cache)
    localTime, utcTime,         \* this.localTime, this.utcTime
    selectedId, eventRecord,    \* this.selectedId, this.eventRecord
    fullCalendarJsInitialised, calendarLoaded, eventsRendered,
    openSpinner, openModal,
    connected,                  \* connectedCallback has run
    loadsPending, loadsIssued,  \* Promise.all(loadScript...) in flight / started
    jqLoaded,                   \* the global $ with the fullCalendar plugin exists
    widget,                     \* the calendar widget: [inited, evs]
    store, nextId,              \* the remote event store and the next id it assigns
    fetchPending,               \* the wire adapter owes eventList a value
    inflight,                   \* createEvent/updateEvent/deleteEvent promises
    confirmPending,             \* LightningConfirm dialogs that are open
    mutSent,                    \* requests sent so far (bounded by MaxMut)
    gestures,                   \* user gestures so far (bounded by MaxGestures)
    initCalls,                  \* calls of initialiseFullCalendarJs so far
    dataDelivered,              \* eventList has received data at least once
    last                        \* what the handler that ran last did

draftVars == <<DEFAULT_FORM, selectedEvent, selIsDefault, localTime, utcTime,
               selectedId, eventRecord>>
flagVars == <<fullCalendarJsInitialised, calendarLoaded, eventsRendered>>
uiVars == <<openSpinner, openModal>>
loadVars == <<connected, loadsPending, loadsIssued, jqLoaded>>
storeVars == <<store, nextId>>
reqVars == <<inflight, confirmPending, mutSent>>

vars == <<TIMEZONE_OFFSET, draftVars, events, flagVars, uiVars, loadVars, widget,
          storeVars, fetchPending, reqVars, gestures, initCalls, dataDelivered, last>>

\* --------------------------------------------------- the handler's record
\* a call on the widget: $(ele).fullCalendar(op, ...)
Call(op, id, n, loaded, fetched) ==
    [op |-> op, id |-> id, n |-> n, loaded |-> loaded, fetched |-> fetched]

Toast(msg, variant) == [msg |-> msg, variant |-> variant]

\* op names the handler, id and rec the id and the record it worked on, pre
\* the cache as it was when the request it answers was sent, threw whether
\* it ended in an exception, calls and toasts what it asked of the widget and
\* of the notification component (for the getter of the aggregation, calls
\* is the list of week-groups it returned)
Done(op, id, rec, pre, threw, calls, toasts) ==
    [op |-> op, id |-> id, rec |-> rec, pre |-> pre, threw |-> threw,
     calls |-> calls, toasts |-> toasts]

Did(op, id, rec, threw, calls, toasts) == Done(op, id, rec, <<>>, threw, calls, toasts)

\* ------------------------------------------------------ the remote store
\* a stored record carries the server's field names
Stored(id, rec) ==
    [Id |-> id, Name |-> rec.title, StartDateTime__c |-> rec.start,
     EndDateTime__c |-> rec.end, Hours__c |-> rec.hours.v]

Event1 == [Id |-> 1, Name |-> IsoDate(171), StartDateTime__c |-> 171,
           EndDateTime__c |-> 189, Hours__c |-> 600]

\* what the store may hold when the session starts
InitStores == {<<>>, <<Event1>>}

StoreIndex(st, id) ==
    IF \E k \in 1..Len(st) : st[k].Id = id
    THEN CHOOSE k \in 1..Len(st) : st[k].Id = id
    ELSE 0

\* the store takes a record whose instants are valid and whose id, if any, exists
StoreAccepts(st, req) ==
    CASE req.kind = "create" -> IsValid(req.rec.start) /\ IsValid(req.rec.end)
      [] req.kind = "update" -> /\ StoreIndex(st, req.id) # 0
                                /\ IsValid(req.rec.start) /\ IsValid(req.rec.end)
      [] req.kind = "delete" -> StoreIndex(st, req.id) # 0

StoreApply(st, nid, req) ==
    CASE req.kind = "create" -> Append(st, Stored(nid, req.rec))
      [] req.kind = "update" ->
            [st EXCEPT ![StoreIndex(st, req.id)] = Stored(req.id, req.rec)]
      [] req.kind = "delete" -> SelectSeq(st, LAMBDA r : r.Id # req.id)

\* ------------------------------------------------------------ the widget
\* $(ele).fullCalendar({... events: this.events ...}); the plugin sets an
\* element up once and ignores a second set-up of the same element
initialiseFullCalendarJs(w, evs) ==
    IF w.inited THEN w ELSE [inited |-> TRUE, evs |-> evs]

\* 'removeEvents' without an argument, then 'renderEvents', list, true
ReRender(w, evs) == IF w.inited THEN [w EXCEPT !.evs = evs] ELSE w

\* 'renderEvent', event, true
RenderEvent(w, e) == IF w.inited THEN [w EXCEPT !.evs = Append(@, e)] ELSE w

\* 'removeEvents', [id]: the events whose id matches; none for a missing id
RemoveEvents(w, id) ==
    IF w.inited /\ id # NoId THEN [w EXCEPT !.evs = SelectSeqNotId(@, id)] ELSE w

\* 'clientEvents', id: the index of the first event with that id; with an
\* undefined id the plugin returns every event, so [0] is the first of all
ClientEvent(w, id) ==
    IF ~w.inited THEN 0
    ELSE IF id = NoId THEN (IF Len(w.evs) > 0 THEN 1 ELSE 0)
    ELSE FindIndex(w.evs, id)

\* ------------------------------------------------------------------ Init
\* the component as its constructor leaves it
Constructed ==
    /\ TIMEZONE_OFFSET \in Offsets
    /\ DEFAULT_FORM = DefaultForm0
    /\ selectedEvent = DefaultForm0
    /\ selIsDefault = TRUE
    /\ events = <<>>
    /\ localTime = [start |-> 0, end |-> 0]
    /\ utcTime = [start |-> 0, end |-> 0]
    /\ selectedId = NoId
    /\ eventRecord = NoEv
    /\ fullCalendarJsInitialised = FALSE
    /\ calendarLoaded = FALSE
    /\ eventsRendered = FALSE
    /\ openSpinner = FALSE
    /\ openModal = FALSE
    /\ connected = FALSE
    /\ loadsPending = 0
    /\ loadsIssued = 0
    /\ jqLoaded = FALSE
    /\ widget = [inited |-> FALSE, evs |-> <<>>]
    /\ fetchPending = TRUE
    /\ inflight = <<>>
    /\ confirmPending = 0
    /\ mutSent = 0
    /\ gestures = 0
    /\ initCalls = 0
    /\ dataDelivered = FALSE
    /\ last = Did("constructor", NoId, NoEv, FALSE, <<>>, <<>>)

Init ==
    /\ Constructed
    /\ store \in InitStores
    /\ nextId = 2

\* --------------------------------------------------------------- the gate
\* renderCalendar() without its test of calendarLoaded
renderCalendar_unguarded(loaded, evs) == Len(evs) # 0

\* renderCalendar(): whether it goes on to initialiseFullCalendarJs()
renderCalendar(loaded, evs) == ~(~loaded \/ Len(evs) = 0)

InitCall(evs, loaded, fetched) == Call("init", NoId, Len(evs), loaded, fetched)

\* the body of renderedCallback(): return when the flag is set, else start
\* a load (Promise.all of loadScript and loadStyle)
RenderedBody(op) ==
    IF fullCalendarJsInitialised
    THEN UNCHANGED <<loadsPending, loadsIssued, last>>
    ELSE /\ loadsIssued < MaxLoads
         /\ loadsPending' = loadsPending + 1
         /\ loadsIssued' = loadsIssued + 1
         /\ last' = Did(op, NoId, NoEv, FALSE, <<>>, <<>>)

connectedCallback ==
    /\ ~connected
    /\ connected' = TRUE
    /\ RenderedBody("connectedCallback")
    /\ UNCHANGED <<gestures, TIMEZONE_OFFSET, draftVars, events, flagVars, uiVars,
                   jqLoaded, widget, storeVars, fetchPending, reqVars, initCalls,
                   dataDelivered>>

renderedCallback ==
    /\ connected
    /\ RenderedBody("renderedCallback")
    /\ UNCHANGED <<gestures, TIMEZONE_OFFSET, draftVars, events, flagVars, uiVars,
                   connected, jqLoaded, widget, storeVars, fetchPending, reqVars,
                   initCalls, dataDelivered>>

\* Promise.all(...).then(): the resources are there
LoadThen ==
    /\ loadsPending > 0
    /\ loadsPending' = loadsPending - 1
    /\ fullCalendarJsInitialised' = TRUE
    /\ calendarLoaded' = TRUE
    /\ jqLoaded' = TRUE
    /\ LET c == InitCall(events, TRUE, dataDelivered)
           calls == IF Len(events) > 0 /\ renderCalendar(TRUE, events)
                    THEN <<c, c>> ELSE <<c>>
       IN  /\ widget' = initialiseFullCalendarJs(widget, events)
           /\ initCalls' = initCalls + Len(calls)
           /\ last' = Did("load.then", NoId, NoEv, FALSE, calls, <<>>)
    /\ UNCHANGED <<gestures, TIMEZONE_OFFSET, draftVars, events, eventsRendered, uiVars,
                   connected, loadsIssued, storeVars, fetchPending, reqVars,
                   dataDelivered>>

\* Promise.all(...).catch(): console.error only
LoadCatch ==
    /\ loadsPending > 0
    /\ loadsPending' = loadsPending - 1
    /\ last' = Did("load.catch", NoId, NoEv, FALSE, <<>>, <<>>)
    /\ UNCHANGED <<gestures, TIMEZONE_OFFSET, draftVars, events, flagVars, uiVars, connected,
                   loadsIssued, jqLoaded, widget, storeVars, fetchPending, reqVars,
                   initCalls, dataDelivered>>

\* --------------------------------------------------------------- eventList
\* data.map(event => ({id: event.Id, title: event.Name, ...}))
MapData(data) ==
    [k \in 1..Len(data) |->
        Ev(data[k].Id, data[k].Name, data[k].StartDateTime__c,
           data[k].EndDateTime__c, Num(data[k].Hours__c))]

\* the delivered records pushed onto the cache that is there
ReplaceCache_keepsOld(old, data) == old \o MapData(data)

\* this.events = []; this.events = data.map(...)
ReplaceCache(old, data) == MapData(data)

\* eventList({data}): the wire adapter delivers the store's collection (it
\* provisions a component once it is connected)
eventListData ==
    /\ connected
    /\ fetchPending
    /\ fetchPending' = FALSE
    /\ dataDelivered' = TRUE
    /\ events' = ReplaceCache(events, store)
    /\ IF ~eventsRendered
       THEN LET go == renderCalendar(calendarLoaded, events')
                calls == IF go THEN <<InitCall(events', calendarLoaded, TRUE)>>
                         ELSE <<>>
            IN  /\ widget' = IF go THEN initialiseFullCalendarJs(widget, events')
                             ELSE widget
                /\ initCalls' = initCalls + Len(calls)
                /\ eventsRendered' = TRUE
                /\ last' = Did("eventList.data", NoId, NoEv, FALSE, calls, <<>>)
       ELSE /\ UNCHANGED <<initCalls, eventsRendered>>
            /\ IF jqLoaded
               THEN /\ widget' = ReRender(widget, events')
                    /\ last' = Did("eventList.data", NoId, NoEv, FALSE,
                                   <<Call("removeEvents", NoId, 0, calendarLoaded, TRUE),
                                     Call("renderEvents", NoId, Len(events'),
                                          calendarLoaded, TRUE)>>, <<>>)
               ELSE \* $ is not defined: the callback throws
                    /\ UNCHANGED widget
                    /\ last' = Did("eventList.data", NoId, NoEv, TRUE, <<>>, <<>>)
    /\ UNCHANGED <<gestures, TIMEZONE_OFFSET, draftVars, fullCalendarJsInitialised,
                   calendarLoaded, uiVars, loadVars, storeVars, reqVars>>

\* an error branch that also takes back eventsRendered
eventListError_resetsFlag ==
    /\ connected
    /\ fetchPending
    /\ fetchPending' = FALSE
    /\ events' = <<>>
    /\ eventsRendered' = FALSE
    /\ last' = Did("eventList.error", NoId, NoEv, TRUE, <<>>, <<>>)
    /\ UNCHANGED <<gestures, TIMEZONE_OFFSET, draftVars, fullCalendarJsInitialised,
                   calendarLoaded, uiVars, loadVars, widget, storeVars, reqVars,
                   initCalls, dataDelivered>>

\* eventList({error}): the cache is cleared; evaluating the arguments of
\* showToast(error.message.body, this.TOAST_VARIANT.error) throws, because the
\* component has no field TOAST_VARIANT, so showToast is not reached
eventListError ==
    /\ connected
    /\ fetchPending
    /\ fetchPending' = FALSE
    /\ events' = <<>>
    /\ last' = Did("eventList.error", NoId, NoEv, TRUE, <<>>, <<>>)
    /\ UNCHANGED <<gestures, TIMEZONE_OFFSET, draftVars, flagVars, uiVars, loadVars, widget,
                   storeVars, reqVars, initCalls, dataDelivered>>

\* ------------------------------------------------------- the edit session
ToEv(d) == Ev(d.id, d.title, d.start, d.end, d.hours)

\* a write through this.selectedEvent.x = ...: the object written is DEFAULT_FORM
\* itself whenever selectedEvent was last assigned DEFAULT_FORM
InPlace(d) ==
    /\ selectedEvent' = d
    /\ DEFAULT_FORM' = IF selIsDefault THEN d ELSE DEFAULT_FORM
    /\ UNCHANGED selIsDefault

\* this.selectedEvent = DEFAULT_FORM
ResetForm ==
    /\ selectedEvent' = DEFAULT_FORM
    /\ selIsDefault' = TRUE
    /\ UNCHANGED DEFAULT_FORM

\* a user gesture: it reaches the component only while no confirmation
\* dialog is open
Gesture ==
    /\ connected
    /\ confirmPending = 0
    /\ gestures < MaxGestures
    /\ gestures' = gestures + 1

addEventHandler ==
    /\ Gesture
    /\ ResetForm
    /\ openModal' = TRUE
    /\ last' = Did("addEventHandler", NoId, NoEv, FALSE, <<>>, <<>>)
    /\ UNCHANGED <<TIMEZONE_OFFSET, localTime, utcTime, selectedId, eventRecord,
                   events, flagVars, openSpinner, loadVars, widget, storeVars,
                   fetchPending, reqVars, initCalls, dataDelivered>>

cancelEventHandler ==
    /\ Gesture
    /\ openModal
    /\ openModal' = FALSE
    /\ selectedId' = NoId
    /\ ResetForm
    /\ last' = Did("cancelEventHandler", NoId, NoEv, FALSE, <<>>, <<>>)
    /\ UNCHANGED <<TIMEZONE_OFFSET, localTime, utcTime, eventRecord, events,
                   flagVars, openSpinner, loadVars, widget, storeVars,
                   fetchPending, reqVars, initCalls, dataDelivered>>

\* a changeHandler that writes the field into the cached record it found
changeHandler_writesRecord ==
    /\ Gesture
    /\ openModal
    /\ \E name \in {"start", "end"}, value \in FormTimes :
          LET k == FindIndex(events, selectedId)
          IN  /\ events' = IF k = 0 THEN events
                           ELSE IF name = "start"
                                THEN [events EXCEPT ![k].start = value]
                                ELSE [events EXCEPT ![k].end = value]
              /\ last' = Did("changeHandler", NoId, ToEv(selectedEvent), FALSE,
                             <<>>, <<>>)
    /\ UNCHANGED <<TIMEZONE_OFFSET, draftVars, flagVars, uiVars, loadVars, widget,
                   storeVars, fetchPending, reqVars, initCalls, dataDelivered>>

\* changeHandler(event): a copy of the draft with one field replaced
changeHandler ==
    /\ Gesture
    /\ openModal
    /\ \E name \in {"start", "end"}, value \in FormTimes :
          LET copy == IF name = "start" THEN [selectedEvent EXCEPT !.start = value]
                                        ELSE [selectedEvent EXCEPT !.end = value]
          IN  /\ selectedEvent' = calculateWorkingHours(copy)
              /\ selIsDefault' = FALSE
              /\ UNCHANGED DEFAULT_FORM
              /\ last' = Did("changeHandler", NoId, ToEv(selectedEvent'), FALSE,
                             <<>>, <<>>)
    /\ UNCHANGED <<TIMEZONE_OFFSET, localTime, utcTime, selectedId, eventRecord,
                   events, flagVars, uiVars, loadVars, widget, storeVars,
                   fetchPending, reqVars, initCalls, dataDelivered>>

\* handleTimeOffset(event) applied to the draft d
handleTimeOffset(d, e, off) ==
    LET lt == convertLocalTime(e, off)
    IN  calculateWorkingHours(
            createTitleBasedOnStartDate(
                [d EXCEPT !.start = lt.start, !.end = lt.end], off))

\* selectedId = event.id; findEventRecord(); openModal = true;
\* handleTimeOffset(src), src being the cached record (click) or the widget's
\* event (drop, resize).  findEventRecord throws when no cached record matches.
OpenOnEvent(op, wid, fromCache, wev) ==
    LET k == FindIndex(events, wid)
    IN  /\ selectedId' = wid
        /\ IF k = 0
           THEN /\ eventRecord' = NoEv
                /\ UNCHANGED <<DEFAULT_FORM, selectedEvent, selIsDefault, localTime,
                               openModal>>
                /\ last' = Did(op, wid, NoEv, TRUE, <<>>, <<>>)
           ELSE LET src == IF fromCache THEN events[k] ELSE wev
                    d == handleTimeOffset([selectedEvent EXCEPT !.id = events[k].id],
                                          src, TIMEZONE_OFFSET)
                IN  /\ eventRecord' = events[k]
                    /\ localTime' = convertLocalTime(src, TIMEZONE_OFFSET)
                    /\ InPlace(d)
                    /\ openModal' = TRUE
                    /\ last' = Did(op, wid, ToEv(d), FALSE, <<>>, <<>>)

\* eventClick: function (calEvent) { self.editEventClickHandler(calEvent) }
editEventClickHandler ==
    /\ Gesture
    /\ widget.inited
    /\ \E k \in 1..Len(widget.evs) :
          OpenOnEvent("editEventClickHandler", widget.evs[k].id, TRUE, widget.evs[k])
    /\ UNCHANGED <<TIMEZONE_OFFSET, utcTime, events, flagVars, openSpinner, loadVars,
                   widget, storeVars, fetchPending, reqVars, initCalls,
                   dataDelivered>>

\* how far a drag moves an event, and how far a resize moves its end
DropDeltas == {72}
ResizeDeltas == {3}

\* eventDrop: the widget has moved the event, then calls dropEventHandler(event)
dropEventHandler ==
    /\ Gesture
    /\ widget.inited
    /\ \E k \in 1..Len(widget.evs), by \in DropDeltas :
          LET wev == [widget.evs[k] EXCEPT !.start = @ + by, !.end = @ + by]
          IN  /\ widget' = [widget EXCEPT !.evs[k] = wev]
              /\ OpenOnEvent("dropEventHandler", wev.id, FALSE, wev)
    /\ UNCHANGED <<TIMEZONE_OFFSET, utcTime, events, flagVars, openSpinner, loadVars,
                   storeVars, fetchPending, reqVars, initCalls, dataDelivered>>

\* eventResize: the widget has moved the event's end, then calls resizeEventHandler
resizeEventHandler ==
    /\ Gesture
    /\ widget.inited
    /\ \E k \in 1..Len(widget.evs), by \in ResizeDeltas :
          LET wev == [widget.evs[k] EXCEPT !.end = @ + by]
          IN  /\ widget' = [widget EXCEPT !.evs[k] = wev]
              /\ OpenOnEvent("resizeEventHandler", wev.id, FALSE, wev)
    /\ UNCHANGED <<TIMEZONE_OFFSET, utcTime, events, flagVars, openSpinner, loadVars,
                   storeVars, fetchPending, reqVars, initCalls, dataDelivered>>

\* select: function (startDate, endDate) { self.openForm(startDate, endDate) }
openForm ==
    /\ Gesture
    /\ widget.inited
    /\ \E s \in FormTimes, e \in FormTimes :
          /\ s < e
          /\ LET lt == convertLocalTime([start |-> s, end |-> e], TIMEZONE_OFFSET)
                 d == calculateWorkingHours(
                          [selectedEvent EXCEPT !.start = lt.start, !.end = lt.end])
             IN  /\ localTime' = lt
                 /\ InPlace(d)
                 /\ last' = Did("openForm", NoId, ToEv(d), FALSE, <<>>, <<>>)
    /\ openModal' = TRUE
    /\ UNCHANGED <<TIMEZONE_OFFSET, utcTime, selectedId, eventRecord, events,
                   flagVars, openSpinner, loadVars, widget, storeVars, fetchPending,
                   reqVars, initCalls, dataDelivered>>

\* ------------------------------------------------------ the coordinator
\* a promise of createEvent / updateEvent / deleteEvent: id and rec are what
\* was sent, utc is the newUtcTimeEvent a create's continuation closes over,
\* st is "sent", "ok" or "err", res the id the store returned, pre the cache
\* when it was sent
Req(kind, id, rec, utc) ==
    [kind |-> kind, id |-> id, rec |-> rec, utc |-> utc, pre |-> events,
     st |-> "sent", res |-> NoId]

\* the id a request is about: the one sent, or for a create the one returned
ReqId(req) == IF req.kind = "create" THEN req.res ELSE req.id

RemoveAt(s, k) == [j \in 1..(Len(s) - 1) |-> IF j < k THEN s[j] ELSE s[j + 1]]

TOAST_MESSAGE == [create |-> "Your record is created!",
                  update |-> "Your record is updated!",
                  delete |-> "Your record is deleted!"]
TOAST_VARIANT == [success |-> "success", error |-> "error"]

\* refresh(): refreshApex(this.eventOriginalData) makes the wire adapter fetch again
refresh == fetchPending' = TRUE

\* what the inputs named start and end may hold when the form is read:
\* both empty, the end empty, a start before the end, an end before the start
FormReads == {<<Empty, Empty>>, <<171, Empty>>, <<171, 226>>, <<226, 171>>}

\* saveEvent(): the inputs named start and end are read into the draft (new
\* Date(v).toISOString() throws on an empty one), the draft is normalised
\* and the request sent
saveEvent ==
    /\ openSpinner' = TRUE
    /\ UNCHANGED <<openModal, selectedId, eventRecord, localTime>>
    /\ \E f \in FormReads :
          LET s == f[1]
              e == f[2]
          IN
          IF ~IsValid(s)
          THEN /\ UNCHANGED <<DEFAULT_FORM, selectedEvent, selIsDefault, utcTime,
                              reqVars>>
               /\ last' = Did("saveEvent", NoId, ToEv(selectedEvent), TRUE, <<>>, <<>>)
          ELSE IF ~IsValid(e)
          THEN /\ InPlace([selectedEvent EXCEPT !.start = s])
               /\ UNCHANGED <<utcTime, reqVars>>
               /\ last' = Did("saveEvent", NoId, ToEv(selectedEvent'), TRUE, <<>>, <<>>)
          ELSE LET read == [selectedEvent EXCEPT !.start = s, !.end = e]
                   utc == convertUtcTime(read, TIMEZONE_OFFSET)
                   d == createTitleBasedOnStartDate(
                            calculateWorkingHours(read), TIMEZONE_OFFSET)
                   newUtcTimeEvent == Ev(NoId, d.title, utc.start, utc.end, d.hours)
                   newLocalTimeEvent == Ev(NoId, d.title, d.start, d.end, d.hours)
               IN  /\ utcTime' = utc
                   /\ InPlace(d)
                   /\ inflight' = Append(inflight,
                          Req("create", NoId, newLocalTimeEvent, newUtcTimeEvent))
                   /\ mutSent' = mutSent + 1
                   /\ UNCHANGED confirmPending
                   /\ last' = Did("saveEvent", NoId, newLocalTimeEvent, FALSE,
                                  <<>>, <<>>)

\* editEvent(): the draft as it stands is sent for this.selectedId
editEvent ==
    /\ openSpinner' = TRUE
    /\ UNCHANGED <<openModal, selectedId, eventRecord, localTime>>
    /\ LET utc == convertUtcTime(selectedEvent, TIMEZONE_OFFSET)
           d == calculateWorkingHours(selectedEvent)
       IN  /\ utcTime' = utc
           /\ InPlace(d)
           /\ inflight' = Append(inflight, Req("update", selectedId, ToEv(d), NoEv))
           /\ mutSent' = mutSent + 1
           /\ UNCHANGED confirmPending
           /\ last' = Did("editEvent", selectedId, ToEv(d), FALSE, <<>>, <<>>)

saveEventHandler ==
    /\ Gesture
    /\ openModal
    /\ mutSent < MaxMut
    /\ IF selectedId # NoId THEN editEvent ELSE saveEvent
    /\ UNCHANGED <<TIMEZONE_OFFSET, events, flagVars, loadVars, widget, storeVars,
                   fetchPending, initCalls, dataDelivered>>

\* removeEventHandler(): the id is taken from the draft, the dialog opened
removeEventHandler ==
    /\ Gesture
    /\ openModal
    /\ selectedId' = selectedEvent.id
    /\ confirmPending' = confirmPending + 1
    /\ last' = Did("removeEventHandler", selectedEvent.id, NoEv, FALSE, <<>>, <<>>)
    /\ UNCHANGED <<TIMEZONE_OFFSET, DEFAULT_FORM, selectedEvent, selIsDefault,
                   localTime, utcTime, eventRecord, events, flagVars, uiVars,
                   loadVars, widget, storeVars, fetchPending, inflight, mutSent,
                   initCalls, dataDelivered>>

\* removeEvent(): deleteEvent({eventId: this.selectedId})
removeEvent ==
    /\ openSpinner' = TRUE
    /\ inflight' = Append(inflight, Req("delete", selectedId, NoEv, NoEv))
    /\ mutSent' = mutSent + 1
    /\ last' = Did("removeEvent", selectedId, NoEv, FALSE, <<>>, <<>>)

\* confirmRemoval() resumes: the dialog answered true
confirmRemovalYes ==
    /\ confirmPending > 0
    /\ mutSent < MaxMut
    /\ confirmPending' = confirmPending - 1
    /\ removeEvent
    /\ UNCHANGED <<gestures, TIMEZONE_OFFSET, draftVars, events, flagVars, openModal, loadVars,
                   widget, storeVars, fetchPending, initCalls, dataDelivered>>

\* a confirmRemoval that ignores the dialog's answer and removes anyway
confirmRemovalNo_removes ==
    /\ confirmPending > 0
    /\ mutSent < MaxMut
    /\ confirmPending' = confirmPending - 1
    /\ openSpinner' = TRUE
    /\ inflight' = Append(inflight, Req("delete", selectedId, NoEv, NoEv))
    /\ mutSent' = mutSent + 1
    /\ last' = Did("confirmRemoval.no", selectedId, NoEv, FALSE, <<>>, <<>>)
    /\ UNCHANGED <<gestures, TIMEZONE_OFFSET, draftVars, events, flagVars, openModal,
                   loadVars, widget, storeVars, fetchPending, initCalls,
                   dataDelivered>>

\* confirmRemoval() resumes: the dialog answered false
confirmRemovalNo ==
    /\ confirmPending > 0
    /\ confirmPending' = confirmPending - 1
    /\ last' = Did("confirmRemoval.no", selectedId, NoEv, FALSE, <<>>, <<>>)
    /\ UNCHANGED <<gestures, TIMEZONE_OFFSET, draftVars, events, flagVars, uiVars, loadVars,
                   widget, storeVars, fetchPending, inflight, mutSent, initCalls,
                   dataDelivered>>

\* the store answers a request: it confirms one it accepts, or rejects
StoreAnswer ==
    /\ \E k \in 1..Len(inflight) :
          /\ inflight[k].st = "sent"
          /\ \/ /\ StoreAccepts(store, inflight[k])
                /\ store' = StoreApply(store, nextId, inflight[k])
                /\ nextId' = IF inflight[k].kind = "create" THEN nextId + 1 ELSE nextId
                /\ inflight' = [inflight EXCEPT ![k].st = "ok",
                                  ![k].res = IF inflight[k].kind = "create"
                                             THEN nextId ELSE NoId]
                /\ last' = Did("store.ok", inflight[k].id, inflight[k].rec, FALSE,
                               <<>>, <<>>)
             \/ /\ inflight' = [inflight EXCEPT ![k].st = "err"]
                /\ UNCHANGED storeVars
                /\ last' = Did("store.err", inflight[k].id, inflight[k].rec, FALSE,
                               <<>>, <<>>)
    /\ UNCHANGED <<gestures, TIMEZONE_OFFSET, draftVars, events, flagVars, uiVars, loadVars,
                   widget, fetchPending, confirmPending, mutSent, initCalls,
                   dataDelivered>>

\* a catch body that also clears the cache, as the fetch error branch does
CatchBody_clearsCache(op, req, hasMessage, msg, threw) ==
    /\ IF hasMessage
       THEN /\ openSpinner' = FALSE
            /\ openModal' = FALSE
            /\ last' = Done(op, ReqId(req), req.rec, req.pre, threw, <<>>,
                            <<Toast(msg, TOAST_VARIANT.error)>>)
       ELSE /\ UNCHANGED uiVars
            /\ last' = Done(op, ReqId(req), req.rec, req.pre, TRUE, <<>>, <<>>)
    /\ events' = <<>>
    /\ UNCHANGED <<draftVars, widget, fetchPending>>

\* the body the three .catch(error => ...) handlers share: console.error,
\* showToast(error.message.body, error), openSpinner = false, openModal = false.
\* An error without a message makes error.message.body throw before the toast.
\* msg is the text shown when error.message exists.
CatchBody(op, req, hasMessage, msg, threw) ==
    /\ IF hasMessage
       THEN /\ openSpinner' = FALSE
            /\ openModal' = FALSE
            /\ last' = Done(op, ReqId(req), req.rec, req.pre, threw, <<>>,
                            <<Toast(msg, TOAST_VARIANT.error)>>)
       ELSE /\ UNCHANGED uiVars
            /\ last' = Done(op, ReqId(req), req.rec, req.pre, TRUE, <<>>, <<>>)
    /\ UNCHANGED <<draftVars, events, widget, fetchPending>>

\* an exception raised inside .then(): a ReferenceError or TypeError has a
\* message (a string), whose .body is undefined
ThenThrows(op, req) == CatchBody(op, req, TRUE, "undefined", TRUE)

\* .catch() of a request the store rejected; the error the platform hands
\* over may or may not have a message
MutationCatch ==
    /\ \E k \in 1..Len(inflight), hasMessage \in BOOLEAN :
          /\ inflight[k].st = "err"
          /\ inflight' = RemoveAt(inflight, k)
          /\ CatchBody(CASE inflight[k].kind = "create" -> "saveEvent.catch"
                         [] inflight[k].kind = "update" -> "editEvent.catch"
                         [] inflight[k].kind = "delete" -> "removeEvent.catch",
                       inflight[k], hasMessage, "server message", FALSE)
    /\ UNCHANGED <<gestures, TIMEZONE_OFFSET, flagVars, loadVars, storeVars, confirmPending,
                   mutSent, initCalls, dataDelivered>>

\* what the success continuations have in common once the widget is patched
ThenTail(op, req, calls, msg) ==
    /\ selectedId' = NoId
    /\ ResetForm
    /\ openSpinner' = FALSE
    /\ openModal' = FALSE
    /\ refresh
    /\ last' = Done(op, ReqId(req), req.rec, req.pre, FALSE, calls,
                     <<Toast(msg, TOAST_VARIANT.success)>>)
    /\ UNCHANGED <<localTime, utcTime, eventRecord>>

\* createEvent(...).then(result => ...)
saveEventThen ==
    /\ \E k \in 1..Len(inflight) :
          LET req == inflight[k]
              newLocalTimeEvent == [req.rec EXCEPT !.id = req.res]
          IN  /\ req.kind = "create" /\ req.st = "ok"
              /\ inflight' = RemoveAt(inflight, k)
              /\ IF ~jqLoaded
                 THEN ThenThrows("saveEvent.then", req)
                 ELSE /\ widget' = RenderEvent(widget, req.utc)
                      /\ events' = Append(events, newLocalTimeEvent)
                      /\ ThenTail("saveEvent.then", req,
                                  <<Call("renderEvent", req.utc.id, 1, calendarLoaded,
                                         dataDelivered)>>,
                                  TOAST_MESSAGE.create)
    /\ UNCHANGED <<gestures, TIMEZONE_OFFSET, flagVars, loadVars, storeVars, confirmPending,
                   mutSent, initCalls, dataDelivered>>

\* deleteEvent(...).then(() => ...): the widget's event with this.selectedId goes
removeEventThen ==
    /\ \E k \in 1..Len(inflight) :
          LET req == inflight[k]
          IN  /\ req.kind = "delete" /\ req.st = "ok"
              /\ inflight' = RemoveAt(inflight, k)
              /\ IF ~jqLoaded
                 THEN ThenThrows("removeEvent.then", req)
                 ELSE /\ widget' = RemoveEvents(widget, selectedId)
                      /\ UNCHANGED events
                      /\ ThenTail("removeEvent.then", req,
                                  <<Call("removeEvents", selectedId, 1, calendarLoaded,
                                         dataDelivered)>>,
                                  TOAST_MESSAGE.delete)
    /\ UNCHANGED <<gestures, TIMEZONE_OFFSET, flagVars, loadVars, storeVars, confirmPending,
                   mutSent, initCalls, dataDelivered>>

\* updateEvent(...).then(() => ...): the widget's event found with
\* this.selectedEvent.id gets this.utcTime and this.selectedEvent.hours
editEventThen ==
    /\ \E k \in 1..Len(inflight) :
          LET req == inflight[k]
              w == ClientEvent(widget, selectedEvent.id)
          IN  /\ req.kind = "update" /\ req.st = "ok"
              /\ inflight' = RemoveAt(inflight, k)
              /\ IF \/ ~jqLoaded
                    \/ w = 0
                    \/ ~(IsValid(utcTime.start) /\ IsValid(utcTime.end))
                 THEN ThenThrows("editEvent.then", req)
                 ELSE /\ widget' = [widget EXCEPT
                                       !.evs[w].id = selectedEvent.id,
                                       !.evs[w].start = utcTime.start,
                                       !.evs[w].end = utcTime.end,
                                       !.evs[w].hours = selectedEvent.hours]
                      /\ UNCHANGED events
                      /\ ThenTail("editEvent.then", req,
                                  <<Call("clientEvents", selectedEvent.id, 1,
                                         calendarLoaded, dataDelivered),
                                    Call("updateEvent", selectedEvent.id, 1,
                                         calendarLoaded, dataDelivered)>>,
                                  TOAST_MESSAGE.update)
    /\ UNCHANGED <<gestures, TIMEZONE_OFFSET, flagVars, loadVars, storeVars, confirmPending,
                   mutSent, initCalls, dataDelivered>>

\* ------------------------------------------------------ the aggregation
\* new Date(year, 0, 1): local midnight of day 0, as an instant
START_OF_THE_YEAR(off) == off

\* Math.ceil(a / b) for b > 0
Ceil(a, b) == -((-a) \div b)

\* getWeekNumber(date) for date = new Date(title), the UTC midnight of day d:
\* Math.ceil((((date - START_OF_THE_YEAR) / MILLISECONDS_PER_YEAR) + 1) / 7)
getWeekNumber(d, off) ==
    Ceil(d * MILLISECONDS_PER_YEAR - START_OF_THE_YEAR(off) + MILLISECONDS_PER_YEAR,
         MILLISECONDS_PER_YEAR * Len(WEEKDAYS))

\* a running total: a number v, or the string whose pieces are s (the text
\* of each operand in turn)
NumTotal(v) == [t |-> "num", v |-> v, s |-> <<>>]
StrTotal(s) == [t |-> "str", v |-> 0, s |-> s]

\* total += hours: numbers add, anything with a string concatenates
PlusHours(total, hours) ==
    IF total.t = "num" /\ hours.t = "num"
    THEN NumTotal(IF total.v = Empty \/ hours.v = Empty THEN Empty
                  ELSE total.v + hours.v)
    ELSE StrTotal((IF total.t = "num" THEN <<total.v>> ELSE total.s) \o <<hours.v>>)

\* index of the first element of s with f(element) = key, 0 when none
\* what a group is looked up and sorted by: a week-group by its weekNumber,
\* a date-group by its title
KeyOf(x, by) == IF by = "weekNumber" THEN x.weekNumber ELSE x.title

RECURSIVE FindKey(_, _, _, _)
FindKey(s, key, by, k) ==
    IF k > Len(s) THEN 0
    ELSE IF KeyOf(s[k], by) = key THEN k
    ELSE FindKey(s, key, by, k + 1)

\* the body of this.events.forEach(event => ...) applied to event e
AddToGroups(groups, e, off) ==
    LET weekNumber == getWeekNumber(e.title, off)
        weekday == getWeekdayName(e.title, off)
        gi == FindKey(groups, weekNumber, "weekNumber", 1)
        gs == IF gi = 0
              THEN Append(groups, [weekNumber |-> weekNumber, weeks |-> <<>>,
                                   weeklyTotalHours |-> NumTotal(0)])
              ELSE groups
        g == IF gi = 0 THEN Len(gs) ELSE gi
        wi == FindKey(gs[g].weeks, e.title, "title", 1)
        ws == IF wi = 0
              THEN Append(gs[g].weeks, [title |-> e.title, weekday |-> weekday,
                                        events |-> <<>>,
                                        dailyTotalHours |-> NumTotal(0)])
              ELSE gs[g].weeks
        w == IF wi = 0 THEN Len(ws) ELSE wi
        ws2 == [ws EXCEPT ![w].events = Append(@, e),
                          ![w].dailyTotalHours = PlusHours(@, e.hours)]
    IN  [gs EXCEPT ![g].weeks = ws2,
                   ![g].weeklyTotalHours = PlusHours(@, e.hours)]

RECURSIVE ForEach(_, _, _, _)
ForEach(evs, k, groups, off) ==
    IF k > Len(evs) THEN groups
    ELSE ForEach(evs, k + 1, AddToGroups(groups, evs[k], off), off)

\* Array.prototype.sort by a.weekNumber - b.weekNumber or by
\* a.title.localeCompare(b.title); the sort is stable
RECURSIVE InsertByKey(_, _, _)
InsertByKey(s, x, by) ==
    IF s = <<>> THEN <<x>>
    ELSE IF KeyOf(s[Len(s)], by) <= KeyOf(x, by) THEN Append(s, x)
    ELSE Append(InsertByKey(SubSeq(s, 1, Len(s) - 1), x, by), s[Len(s)])

\* a sort that leaves the list in insertion order
SortByKey_unsorted(s, by) == s

RECURSIVE SortByKey(_, _)
SortByKey(s, by) ==
    IF s = <<>> THEN <<>>
    ELSE InsertByKey(SortByKey(SubSeq(s, 1, Len(s) - 1), by), s[Len(s)], by)

\* get groupedEventsBasedOnWeekNumber() over the cache evs
groupedEventsBasedOnWeekNumber(evs, off) ==
    LET grouped == ForEach(evs, 1, <<>>, off)
        sortedWeeks == [i \in DOMAIN grouped |->
                           [grouped[i] EXCEPT !.weeks = SortByKey(@, "title")]]
    IN  SortByKey(sortedWeeks, "weekNumber")

\* the template reads groupedEventsBasedOnWeekNumber when it renders
getGroupedEventsBasedOnWeekNumber ==
    /\ connected
    /\ last' = Did("groupedEventsBasedOnWeekNumber", NoId, NoEv, FALSE,
                   groupedEventsBasedOnWeekNumber(events, TIMEZONE_OFFSET), <<>>)
    /\ UNCHANGED <<gestures, TIMEZONE_OFFSET, draftVars, events, flagVars, uiVars,
                   loadVars, widget, storeVars, fetchPending, reqVars, initCalls,
                   dataDelivered>>

\* records the store may hold when a session starts: two on day 2, one on
\* day 3, one on day 6 (week 1 or 2, by the zone), one on day 9 (week 2)
StoredOn(id, day, hours) ==
    [Id |-> id, Name |-> day, StartDateTime__c |-> day * MILLISECONDS_PER_YEAR + 27,
     EndDateTime__c |-> day * MILLISECONDS_PER_YEAR + 27 + hours * MILLISECONDS_PER_HOUR,
     Hours__c |-> 100 * hours]

AggRecords == {Event1, StoredOn(2, 2, 2), StoredOn(3, 3, 8), StoredOn(4, 6, 4),
               StoredOn(5, 9, 1)}

\* every list of up to three of them, in any order
AggStores ==
    {<<>>} \cup {<<a>> : a \in AggRecords}
           \cup {p \in AggRecords \X AggRecords : p[1] # p[2]}
           \cup {p \in AggRecords \X AggRecords \X AggRecords :
                    p[1] # p[2] /\ p[1] # p[3] /\ p[2] # p[3]}

AggInit ==
    /\ Constructed
    /\ store \in AggStores
    /\ nextId = 6

AggNext ==
    \/ connectedCallback
    \/ eventListData
    \/ getGroupedEventsBasedOnWeekNumber

\* the session up to the first rendering of the aggregated view
AggSpec == AggInit /\ [][AggNext]_vars

Next ==
    \/ connectedCallback
    \/ renderedCallback
    \/ LoadThen
    \/ LoadCatch
    \/ eventListData
    \/ eventListError
    \/ addEventHandler
    \/ cancelEventHandler
    \/ changeHandler
    \/ editEventClickHandler
    \/ dropEventHandler
    \/ resizeEventHandler
    \/ openForm
    \/ saveEventHandler
    \/ removeEventHandler
    \/ confirmRemovalYes
    \/ confirmRemovalNo
    \/ StoreAnswer
    \/ MutationCatch
    \/ saveEventThen
    \/ removeEventThen
    \/ editEventThen

Spec == Init /\ [][Next]_vars

\* ------------------------------------------------------------- properties
CallOps(d) == [i \in DOMAIN d.calls |-> d.calls[i].op]

CountCalls(d, op) == Cardinality({i \in DOMAIN d.calls : d.calls[i].op = op})

ThenOps == {"saveEvent.then", "editEvent.then", "removeEvent.then"}
CatchOps == {"saveEvent.catch", "editEvent.catch", "removeEvent.catch"}
SendOps == {"saveEvent", "editEvent", "removeEvent"}

\* C1: once the resource load and the data fetch have both completed,
\* initialiseFullCalendarJs has been invoked exactly once.
C1_InitialisedExactlyOnce ==
    (calendarLoaded /\ dataDelivered) => initCalls = 1

\* C2: every call of initialiseFullCalendarJs is made with the resources
\* loaded and the initial fetch already delivered.
C2_InitAfterBothCompletions ==
    \A i \in DOMAIN last.calls :
        last.calls[i].op = "init" => (last.calls[i].loaded /\ last.calls[i].fetched)

\* C3: the success continuation of a confirmed create leaves the cache equal
\* to the pre-call cache plus one record, which has the returned id and the
\* draft's title, start, end and hours, and makes exactly one renderEvent call.
C3_OptimisticCreate ==
    [][last'.op = "saveEvent.then" =>
          /\ last'.id # NoId
          /\ events' = Append(last'.pre, [last'.rec EXCEPT !.id = last'.id])
          /\ CountCalls(last', "renderEvent") = 1]_vars

\* C4 as claimed: after the failure continuation of a rejected create, update
\* or delete the cache is what it was before the call, and no widget call
\* was made.
C4_CacheAsBeforeCall ==
    [][last'.op \in CatchOps =>
          /\ events' = last'.pre
          /\ widget' = widget
          /\ last'.calls = <<>>]_vars

\* C4 as amended: neither sending a create, update or delete nor the failure
\* continuation of a rejected one changes the cache or the widget or makes a
\* widget call; the cache after the failure continuation is the cache the
\* continuation found.
C4_FailedMutationChangesNothing ==
    [][last'.op \in (CatchOps \cup SendOps) =>
          /\ events' = events
          /\ widget' = widget
          /\ last'.calls = <<>>]_vars

\* a rejected update has run its failure continuation over a non-empty cache
\* and an initialised widget, after a data delivery changed the cache
C4_Witness ==
    /\ last.op = "editEvent.catch"
    /\ Len(events) > 0
    /\ widget.inited
    /\ events # last.pre

\* C5: the success continuation of a confirmed delete of a cached id leaves
\* the cache without that id and one record shorter, and makes exactly one
\* removeEvents call, with that id.
C5_ConfirmedDelete ==
    [][(last'.op = "removeEvent.then" /\ FindIndex(events, last'.id) # 0) =>
          /\ FindIndex(events', last'.id) = 0
          /\ Len(events') = Len(events) - 1
          /\ CountCalls(last', "removeEvents") = 1
          /\ \A i \in DOMAIN last'.calls :
                last'.calls[i].op = "removeEvents" => last'.calls[i].id = last'.id]_vars

\* C6: the success continuation of a confirmed update of a cached id leaves
\* the cached record of that id with the draft's title, start, end and hours,
\* the rest of the cache as it was, and the widget's event of that id patched.
C6_ConfirmedUpdate ==
    [][(last'.op = "editEvent.then" /\ FindIndex(events, last'.id) # 0) =>
          LET k == FindIndex(events, last'.id)
          IN  /\ Len(events') = Len(events)
              /\ \A j \in DOMAIN events : j # k => events'[j] = events[j]
              /\ events'[k] = [last'.rec EXCEPT !.id = last'.id]
              /\ \E i \in DOMAIN last'.calls :
                    /\ last'.calls[i].op = "updateEvent"
                    /\ last'.calls[i].id = last'.id]_vars

C8_CacheIsDelivery ==
    [][last'.op = "eventList.data" =>
          /\ Len(events') = Len(store)
          /\ \A k \in DOMAIN store :
                /\ events'[k].id = store[k].Id
                /\ events'[k].title = store[k].Name
                /\ events'[k].start = store[k].StartDateTime__c
                /\ events'[k].end = store[k].EndDateTime__c
                /\ events'[k].hours = Num(store[k].Hours__c)]_vars

\* a delivery has replaced a cache that held an optimistically created record
\* by the store's two records
C8_Witness ==
    /\ last.op = "eventList.data"
    /\ Len(last.calls) = 2
    /\ Len(events) = 2
    /\ events[2].hours.t = "num"

\* C9: the continuation of every create, update or delete the store
\* confirmed requests a refresh of the data query.
C9_RefreshAfterMutation ==
    [][last'.op \in ThenOps => fetchPending']_vars

\* C10: a failed fetch empties the cache, issues exactly one error
\* notification and makes no widget call.
C10_FetchFailure ==
    last.op = "eventList.error" =>
        /\ events = <<>>
        /\ Len(last.toasts) = 1
        /\ last.calls = <<>>

\* C11: the continuation that ends a create, update or delete round trip
\* leaves openSpinner false, and the one that ends a rejected request issues
\* exactly one notification, of the error variant.
C11_RoundTripEndsCleared ==
    [][last'.op \in (ThenOps \cup CatchOps) =>
          /\ ~openSpinner'
          /\ last'.op \in CatchOps =>
                /\ Len(last'.toasts) = 1
                /\ last'.toasts[1].variant = TOAST_VARIANT.error]_vars

\* C12: with the session's TIMEZONE_OFFSET, convertLocalTime applied to what
\* convertUtcTime made of a draft's start and end gives that start and end
\* back: for every pair of local instants, and for the draft and the utcTime
\* that saveEvent and editEvent leave behind when they send a request.
C12_RoundTrip ==
    /\ \A s \in Instants, e \in Instants :
          convertLocalTime(convertUtcTime([start |-> s, end |-> e], TIMEZONE_OFFSET),
                           TIMEZONE_OFFSET) = [start |-> s, end |-> e]
    /\ (last.op \in {"saveEvent", "editEvent"} /\ ~last.threw) =>
          convertLocalTime(utcTime, TIMEZONE_OFFSET)
              = [start |-> selectedEvent.start, end |-> selectedEvent.end]

\* saveEvent has sent a create whose utcTime differs from the draft's local
\* start and end
C12_Witness ==
    /\ last.op = "saveEvent"
    /\ ~last.threw
    /\ IsValid(selectedEvent.start)
    /\ utcTime.start # selectedEvent.start
    /\ utcTime.end # selectedEvent.end

Abs(x) == IF x < 0 THEN -x ELSE x

\* C13: every create or update request sent to the store carries a record
\* whose hours are its own (end - start) in hours, to the nearest hundredth
\* (NaN when its start or end is not a date).
C13_SentHoursMatch ==
    \A k \in DOMAIN inflight :
        inflight[k].kind \in {"create", "update"} =>
            LET rec == inflight[k].rec
            IN  IF IsValid(rec.start) /\ IsValid(rec.end)
                THEN /\ rec.hours.v # Empty
                     /\ 2 * Abs(rec.hours.v * MILLISECONDS_PER_HOUR
                                  - 100 * (rec.end - rec.start))
                            <= MILLISECONDS_PER_HOUR
                ELSE rec.hours.v = Empty

\* an update is on its way whose record was resized to seven hours after the
\* cache delivered it with six
C13_Witness ==
    \E k \in DOMAIN inflight :
        /\ inflight[k].kind = "update"
        /\ inflight[k].rec.hours.v = 700
        /\ inflight[k].rec.end - inflight[k].rec.start = 7 * MILLISECONDS_PER_HOUR

\* the numeric sum of the hours of the events evs[k..]
RECURSIVE SumOfHours(_, _)
SumOfHours(evs, k) ==
    IF k > Len(evs) THEN 0 ELSE evs[k].hours.v + SumOfHours(evs, k + 1)

\* the numeric sum of the daily totals of the date-groups ws[k..]
RECURSIVE SumOfDaily(_, _)
SumOfDaily(ws, k) ==
    IF k > Len(ws) THEN 0 ELSE SumOfHours(ws[k].events, 1) + SumOfDaily(ws, k + 1)

\* C14: in the aggregation of the cache every date-group's dailyTotalHours is
\* the number that is the sum of its events' hours, and every week-group's
\* weeklyTotalHours the number that is the sum of its date-groups' totals.
C14_TotalsAreSums ==
    LET grouped == groupedEventsBasedOnWeekNumber(events, TIMEZONE_OFFSET)
    IN  \A g \in DOMAIN grouped :
            /\ grouped[g].weeklyTotalHours = NumTotal(SumOfDaily(grouped[g].weeks, 1))
            /\ \A w \in DOMAIN grouped[g].weeks :
                  grouped[g].weeks[w].dailyTotalHours
                      = NumTotal(SumOfHours(grouped[g].weeks[w].events, 1))

\* where the event e sits in the week-groups gs: the set of its positions
PlacesOf(gs, e) ==
    {p \in {<<g, w, i>> : g \in DOMAIN gs, w \in 1..3, i \in 1..3} :
        /\ p[2] \in DOMAIN gs[p[1]].weeks
        /\ p[3] \in DOMAIN gs[p[1]].weeks[p[2]].events
        /\ gs[p[1]].weeks[p[2]].events[p[3]] = e}

\* C15: the week-groups the aggregation returns partition the cache: every
\* cached event sits in exactly one date-group of one week-group, the week
\* being getWeekNumber of its date and the date-group's title its title;
\* week-groups ascend strictly by weekNumber, date-groups strictly by date.
C15_GroupsPartitionCache ==
    last.op = "groupedEventsBasedOnWeekNumber" =>
        LET gs == last.calls
        IN  /\ \A k \in DOMAIN events :
                  /\ Cardinality(PlacesOf(gs, events[k])) = 1
                  /\ \A p \in PlacesOf(gs, events[k]) :
                        /\ gs[p[1]].weekNumber
                              = getWeekNumber(events[k].title, TIMEZONE_OFFSET)
                        /\ gs[p[1]].weeks[p[2]].title = events[k].title
            /\ \A g \in DOMAIN gs :
                  /\ \A w \in DOMAIN gs[g].weeks :
                        /\ Len(gs[g].weeks[w].events) > 0
                        /\ \A i \in DOMAIN gs[g].weeks[w].events :
                              \E k \in DOMAIN events :
                                  events[k] = gs[g].weeks[w].events[i]
                        /\ w > 1 => gs[g].weeks[w - 1].title < gs[g].weeks[w].title
                  /\ Len(gs[g].weeks) > 0
                  /\ g > 1 => gs[g - 1].weekNumber < gs[g].weekNumber

\* the aggregation has returned two weeks for a cache of three events that
\* was delivered latest week first, one week holding two dates
C15_Witness ==
    /\ last.op = "groupedEventsBasedOnWeekNumber"
    /\ Len(events) = 3
    /\ getWeekNumber(events[1].title, TIMEZONE_OFFSET)
          > getWeekNumber(events[3].title, TIMEZONE_OFFSET)
    /\ Len(last.calls) = 2
    /\ \E g \in DOMAIN last.calls : Len(last.calls[g].weeks) = 2

\* C16: no update or delete request is sent for an id that the cache did not
\* hold when the request was sent.
C16_NoRequestForAbsentId ==
    \A k \in DOMAIN inflight :
        inflight[k].kind \in {"update", "delete"} =>
            FindIndex(inflight[k].pre, inflight[k].id) # 0

\* C17: once a resource load has failed and none has succeeded, no further
\* load is issued, calendarLoaded stays false and initialiseFullCalendarJs
\* is not invoked.
C17_LoadFailureIsTerminal ==
    [][(~jqLoaded /\ loadsPending < loadsIssued) =>
          /\ loadsIssued' = loadsIssued
          /\ ~calendarLoaded'
          /\ initCalls' = initCalls]_vars

OpenNewOps == {"addEventHandler", "openForm"}
OpenExistingOps == {"editEventClickHandler", "dropEventHandler", "resizeEventHandler"}

\* C18: a session opened for a new event (addEventHandler, openForm) has
\* selectedId null; one opened from an existing event (click, drop, resize)
\* has selectedId equal to that event's id; and saveEventHandler issues a
\* create exactly when selectedId is null, else an update of selectedId.
C18_ModeFollowsOpening ==
    [][/\ last'.op \in OpenNewOps => selectedId' = NoId
       /\ (last'.op \in OpenExistingOps /\ ~last'.threw) =>
             selectedId' = last'.id /\ selectedId' # NoId
       /\ (last'.op = "saveEvent" /\ ~last'.threw) =>
             /\ selectedId = NoId
             /\ inflight'[Len(inflight')].kind = "create"
       /\ last'.op = "editEvent" =>
             /\ inflight'[Len(inflight')].kind = "update"
             /\ inflight'[Len(inflight')].id = selectedId]_vars

\* C19: right after an opening gesture the draft holds only what that gesture
\* sets: after addEventHandler it is the empty form; after openForm it has
\* the selected start and end, their hours, and no id or title; after a
\* click, drop or resize it has the event's id and the start, end, title and
\* hours made from that event.
C19_OpeningDiscardsDraft ==
    [][/\ last'.op = "addEventHandler" => selectedEvent' = DefaultForm0
       /\ last'.op = "openForm" =>
             /\ selectedEvent'.id = NoId
             /\ selectedEvent'.title = Empty
             /\ selectedEvent'.weekday = ""
       /\ (last'.op \in OpenExistingOps /\ ~last'.threw) =>
             /\ selectedEvent'.id = last'.id
             /\ selectedEvent'.title = IsoDate(selectedEvent'.start)
             /\ selectedEvent'.hours = HoursOf(selectedEvent'.start, selectedEvent'.end)]_vars

\* C20: opening a session on an event (click, drop, resize), editing a field
\* with changeHandler and cancelling leave the cache as it was: the same
\* records with the same id, title, start, end and hours, in the same order.
C20_DraftEditsLeaveCache ==
    [][last'.op \in (OpenExistingOps \cup {"changeHandler", "cancelEventHandler"}) =>
          events' = events]_vars

\* a field of a draft opened on a cached event has been edited, so that the
\* draft differs from the cached record it was opened on
C20_Witness ==
    /\ last.op = "changeHandler"
    /\ selectedId # NoId
    /\ FindIndex(events, selectedId) # 0
    /\ selectedEvent.id = selectedId
    /\ LET rec == events[FindIndex(events, selectedId)]
       IN  selectedEvent.start # rec.start \/ selectedEvent.end # rec.end

\* C21: every create or update request sent to the store carries a record
\* whose title is the ISO calendar date of its own start instant.
C21_SentTitleIsStartDate ==
    \A k \in DOMAIN inflight :
        (inflight[k].kind \in {"create", "update"} /\ IsValid(inflight[k].rec.start)) =>
            inflight[k].rec.title = IsoDate(inflight[k].rec.start)

\* the name of day d's day of the week under the Monday-first table (day 0
\* is a Sunday)
WeekdayOf(d) == WEEKDAYS[((d + 6) % 7) + 1]

\* C22: the weekday label of the draft, and of every date-group of the
\* aggregation of the cache, names the actual day of the week of the date it
\* was made from: 'Mon' for a Monday up to 'Sun' for a Sunday.
C22_WeekdayNamesTheDay ==
    /\ (IsValid(selectedEvent.title) /\ selectedEvent.weekday # "") =>
          selectedEvent.weekday = WeekdayOf(selectedEvent.title)
    /\ LET grouped == groupedEventsBasedOnWeekNumber(events, TIMEZONE_OFFSET)
       IN  \A g \in DOMAIN grouped : \A w \in DOMAIN grouped[g].weeks :
              grouped[g].weeks[w].weekday = WeekdayOf(grouped[g].weeks[w].title)

\* C23: every cached record has an id and no two cached records share one.
C23_CacheIdsUnique ==
    \A k \in DOMAIN events :
        /\ events[k].id # NoId
        /\ \A j \in DOMAIN events : events[j].id = events[k].id => j = k

\* C24: every record in a create or update request, and every record in the
\* cache, whose start and end are dates has end >= start and hours that are
\* not negative.
C24_EndNotBeforeStart ==
    /\ \A k \in DOMAIN inflight :
          LET rec == inflight[k].rec
          IN  (inflight[k].kind \in {"create", "update"}
                  /\ IsValid(rec.start) /\ IsValid(rec.end)) =>
                 rec.end >= rec.start /\ rec.hours.v >= 0
    /\ \A k \in DOMAIN events :
          (IsValid(events[k].start) /\ IsValid(events[k].end)) =>
              events[k].end >= events[k].start /\ events[k].hours.v >= 0

\* C25: calendarLoaded, once true, stays true, and eventsRendered, once
\* true, stays true.
C25_FlagsMonotonic ==
    [][/\ calendarLoaded => calendarLoaded'
       /\ eventsRendered => eventsRendered']_vars

\* with both flags set, a refresh after a mutation has ended in a fetch error
C25_Witness ==
    /\ calendarLoaded
    /\ eventsRendered
    /\ last.op = "eventList.error"
    /\ mutSent > 0

\* C26: at most one create, update or delete request is outstanding (sent,
\* its continuation not yet run) at any time.
C26_OneOutstandingMutation == Len(inflight) <= 1

\* C27: a success continuation of a delete removes from the widget the id
\* that was sent, and one of an update patches the widget's event of the id
\* that was sent with the start and end of the request that was sent.
C27_ContinuationUsesSentRequest ==
    [][/\ (last'.op = "removeEvent.then" /\ ~last'.threw) =>
             \A i \in DOMAIN last'.calls : last'.calls[i].id = last'.id
       /\ (last'.op = "editEvent.then" /\ ~last'.threw) =>
             /\ \A i \in DOMAIN last'.calls : last'.calls[i].id = last'.id
             /\ LET w == FindIndex(widget'.evs, last'.id)
                    utc == convertUtcTime(last'.rec, TIMEZONE_OFFSET)
                IN  /\ w # 0
                    /\ widget'.evs[w].start = utc.start
                    /\ widget'.evs[w].end = utc.end]_vars

\* C28: an update sent right after a click opened the session on a cached
\* event, with no field edited in between, carries the start and end that
\* the cached record of that id holds.
C28_ClickSaveKeepsInstants ==
    [][(last.op = "editEventClickHandler" /\ ~last.threw /\ last'.op = "editEvent") =>
          LET k == FindIndex(events, last'.id)
          IN  /\ k # 0
              /\ last'.rec.start = events[k].start
              /\ last'.rec.end = events[k].end]_vars

\* C29: after the success continuation of a create has rendered the new
\* event, the widget holds an event with the id the store returned, and the
\* cache holds a record with that id.
C29_RenderedEventHasId ==
    [][(last'.op = "saveEvent.then" /\ ~last'.threw) =>
          /\ last'.id # NoId
          /\ FindIndex(widget'.evs, last'.id) # 0
          /\ FindIndex(events', last'.id) # 0
          /\ \A i \in DOMAIN last'.calls :
                last'.calls[i].op = "renderEvent" => last'.calls[i].id = last'.id]_vars

\* C30: a delete request is sent only by the step in which a confirmation
\* dialog that removeEventHandler opened returns true, one request for one
\* dialog; opening the dialog sends nothing; and when the dialog returns
\* false no request is sent and the cache and the widget stay as they were.
C30_DeleteOnlyAfterConfirm ==
    [][/\ (Len(inflight') > Len(inflight)
              /\ inflight'[Len(inflight')].kind = "delete") =>
             /\ last'.op = "removeEvent"
             /\ confirmPending > 0
             /\ confirmPending' = confirmPending - 1
             /\ Len(inflight') = Len(inflight) + 1
       /\ last'.op = "removeEventHandler" =>
             /\ inflight' = inflight
             /\ confirmPending' = confirmPending + 1
       /\ last'.op = "confirmRemoval.no" =>
             /\ inflight' = inflight
             /\ mutSent' = mutSent
             /\ events' = events
             /\ widget' = widget]_vars

\* the user has declined the removal of a cached event shown on the widget
C30_Witness ==
    /\ last.op = "confirmRemoval.no"
    /\ last.id # NoId
    /\ FindIndex(events, last.id) # 0
    /\ FindIndex(widget.evs, last.id) # 0
    /\ inflight = <<>>

====
